---- MODULE Spec2Model ----
(***************************************************************************)
(* Model of script.js of SpotifyVisualiser: the ingestion, normalisation   *)
(* and aggregation pipeline behind the "Process Files" button.             *)
(*                                                                         *)
(* JavaScript values are tagged records: [t |-> type] and, by type, the    *)
(* number n, the string s, the boolean b, the array elements a, or the     *)
(* object's properties o (a record over the eight record keys, Absent      *)
(* where the object has no such own property).                             *)
(* A Date is its time value in whole hours since the epoch (all timestamps *)
(* drawn are on the hour), or NaN.  Minutes and hours derived with         *)
(* toFixed are kept as scaled integers (hundredths, tenths).               *)
(***************************************************************************)
EXTENDS Integers, Sequences, FiniteSets, TLC

VARIABLES
    tzOffset,        \* the browser's local timezone, hours east of UTC
    fileInputFiles,  \* fileInput.files.length
    fileCount,       \* fileCount.textContent, as the number it shows
    pc,              \* position of the handleFileProcessing invocation
    files,           \* the invocation's `files` (its length)
    idx,             \* index of the file whose read is awaited
    allStreams,      \* the invocation's accumulating raw records
    loaderHidden,    \* loader.classList has 'hidden'
    errorHidden,     \* errorMessage.classList has 'hidden'
    errorText,       \* errorMessage.textContent
    summaryHidden,   \* summarySection.classList has 'hidden'
    chartsHidden,    \* chartsSection.classList has 'hidden'
    statsContainer,  \* statsContainer.innerHTML, as the stats it lists
    charts,          \* the global registry of chart instances
    outcome,         \* history: the branch the invocation ended in
    loaderShows,     \* history: times the invocation showed the loader
    readLog,         \* history: what each file read of the invocation gave
    rendered,        \* history: the records the invocation displayed
    call,            \* a pure function under test and its arguments
    ret,             \* its result
    prior            \* an older invocation still suspended: its locals

uiVars == <<loaderHidden, errorHidden, errorText, summaryHidden, chartsHidden,
            statsContainer, charts>>
invVars == <<pc, files, idx, allStreams, outcome, loaderShows, readLog, rendered>>
envVars == <<tzOffset, fileInputFiles, fileCount>>
pureVars == <<call, ret>>
vars == <<envVars, invVars, uiVars, pureVars, prior>>

-----------------------------------------------------------------------------
(* Bounds of the model.                                                    *)

MaxFiles == 2      \* files selectable in one batch
MaxStreams == 2    \* raw records one invocation accumulates
MaxData == 3       \* records given to an aggregation function under test
MaxCount == 2      \* largest count given to getTopItems under test

-----------------------------------------------------------------------------
(* JavaScript values.                                                      *)

Undefined == [t |-> "undefined"]
Null == [t |-> "null"]
NaN == [t |-> "NaN"]
Num(n) == [t |-> "number", n |-> n]
Str(s) == [t |-> "string", s |-> s]
Bool(b) == [t |-> "boolean", b |-> b]
Obj(o) == [t |-> "object", o |-> o]
Arr(a) == [t |-> "array", a |-> a]
Throw == [t |-> "throw"]

\* The mark of a key an object does not have.
Absent == [t |-> "absent"]

\* The object literal with the given values under the eight record keys.
RawRecord(e, ts, a, la, t, lt, ms, lms) ==
    Obj([endTime |-> e, ts |-> ts,
         artistName |-> a, master_metadata_album_artist_name |-> la,
         trackName |-> t, master_metadata_track_name |-> lt,
         msPlayed |-> ms, ms_played |-> lms])

\* {}
EmptyObject == RawRecord(Absent, Absent, Absent, Absent, Absent, Absent, Absent, Absent)

\* o has an own property k.
Has(o, k) == o.t = "object" /\ o.o[k] # Absent

\* ToBoolean
Truthy(x) ==
    CASE x.t \in {"undefined", "null", "NaN"} -> FALSE
      [] x.t = "number" -> x.n # 0
      [] x.t = "string" -> x.s # ""
      [] x.t = "boolean" -> x.b
      [] x.t \in {"object", "array"} -> TRUE

\* a || b
JsOr(a, b) == IF Truthy(a) THEN a ELSE b

\* o[k] for the eight record keys: none of them is inherited by a primitive
\* wrapper, an array or a plain object; reading a property of null throws.
Get(o, k) ==
    CASE o.t \in {"null", "undefined"} -> Throw
      [] o.t = "object" -> IF Has(o, k) THEN o.o[k] ELSE Undefined
      [] OTHER -> Undefined

\* StringToNumber, on the strings the model draws.
StringToNumber(s) ==
    CASE s = "" -> Num(0)
      [] s = "5000" -> Num(5000)
      [] s = "0" -> Num(0)
      [] OTHER -> NaN

\* ToNumber (a plain object converts through "[object Object]").
ToNumber(x) ==
    CASE x.t = "number" -> x
      [] x.t = "NaN" -> NaN
      [] x.t = "string" -> StringToNumber(x.s)
      [] x.t = "boolean" -> IF x.b THEN Num(1) ELSE Num(0)
      [] x.t = "null" -> Num(0)
      [] x.t \in {"undefined", "object"} -> NaN

\* x > 0
GreaterThanZero(x) ==
    LET n == ToNumber(x) IN n.t = "number" /\ n.n > 0

-----------------------------------------------------------------------------
(* Dates.                                                                  *)

MsPerHour == 3600000
MsPerMinute == 60000

\* Days since 1970-01-01 of a civil date (proleptic Gregorian calendar).
DaysOfEra(yoe, mp, d) ==
    yoe * 365 + yoe \div 4 - yoe \div 100 + (153 * mp + 2) \div 5 + d - 1

DaysFromShiftedYear(yy, mp, d) ==
    (yy \div 400) * 146097 + DaysOfEra(yy % 400, mp, d) - 719468

DaysFromCivil(y, m, d) ==
    DaysFromShiftedYear(IF m <= 2 THEN y - 1 ELSE y, IF m > 2 THEN m - 3 ELSE m + 9, d)

\* The civil date of a day number.
CivilFromMonth(era, yoe, doy, mp, m) ==
    [y |-> yoe + era * 400 + (IF m <= 2 THEN 1 ELSE 0),
     m |-> m,
     d |-> doy - (153 * mp + 2) \div 5 + 1]

CivilFromShiftedMonth(era, yoe, doy, mp) ==
    CivilFromMonth(era, yoe, doy, mp, IF mp < 10 THEN mp + 3 ELSE mp - 9)

CivilFromDayOfYear(era, yoe, doy) ==
    CivilFromShiftedMonth(era, yoe, doy, (5 * doy + 2) \div 153)

CivilFromYearOfEra(era, doe, yoe) ==
    CivilFromDayOfYear(era, yoe, doe - (365 * yoe + yoe \div 4 - yoe \div 100))

CivilFromDayOfEra(era, doe) ==
    CivilFromYearOfEra(era, doe,
        (doe - doe \div 1460 + doe \div 36524 - doe \div 146096) \div 365)

CivilFromShiftedDays(z) == CivilFromDayOfEra(z \div 146097, z % 146097)

CivilFromDays(z0) == CivilFromShiftedDays(z0 + 719468)

\* The timestamp strings the model draws, as Date.parse reads them: an ISO
\* string ending in Z is UTC, an ISO date alone is UTC midnight, and a
\* "YYYY-MM-DD HH:MM" string is local time.
TimeStrings ==
    [s \in {"2023-01-15T10:00:00Z", "2023-01-31T23:00:00Z", "2023-02-01 09:00",
            "2023-03-01T02:00:00Z", "2022-12-31 22:00"} |->
        CASE s = "2023-01-15T10:00:00Z" -> [y |-> 2023, m |-> 1, d |-> 15, h |-> 10, utc |-> TRUE]
          [] s = "2023-01-31T23:00:00Z" -> [y |-> 2023, m |-> 1, d |-> 31, h |-> 23, utc |-> TRUE]
          [] s = "2023-02-01 09:00" -> [y |-> 2023, m |-> 2, d |-> 1, h |-> 9, utc |-> FALSE]
          [] s = "2023-03-01T02:00:00Z" -> [y |-> 2023, m |-> 3, d |-> 1, h |-> 2, utc |-> TRUE]
          [] s = "2022-12-31 22:00" -> [y |-> 2022, m |-> 12, d |-> 31, h |-> 22, utc |-> FALSE]]

\* Date.parse(s): the time value in hours, or NaN.
DateParse(s, tz) ==
    IF s \in DOMAIN TimeStrings
    THEN LET c == TimeStrings[s]
         IN Num(DaysFromCivil(c.y, c.m, c.d) * 24 + c.h - (IF c.utc THEN 0 ELSE tz))
    ELSE NaN

\* new Date(x).getTime(): a string is parsed, anything else goes through ToNumber
\* (milliseconds).
NewDate(x, tz) ==
    IF x.t = "string" THEN DateParse(x.s, tz)
    ELSE LET n == ToNumber(x) IN
         IF n.t = "number" THEN Num(n.n \div MsPerHour) ELSE NaN

\* The local civil fields of a valid Date.
LocalHours(time, tz) == time.n + tz
getHours(time, tz) == LocalHours(time, tz) % 24
getDay(time, tz) == ((LocalHours(time, tz) \div 24) + 4) % 7
getFullYear(time, tz) == CivilFromDays(LocalHours(time, tz) \div 24).y
getMonth(time, tz) == CivilFromDays(LocalHours(time, tz) \div 24).m - 1

-----------------------------------------------------------------------------
(* Record Normalizer and validity predicate.                               *)

standardizeStreamData(stream) ==
    IF stream.t \in {"null", "undefined"} THEN Throw
    ELSE [endTime |-> JsOr(Get(stream, "endTime"), Get(stream, "ts")),
          artistName |-> JsOr(Get(stream, "artistName"),
                              Get(stream, "master_metadata_album_artist_name")),
          trackName |-> JsOr(Get(stream, "trackName"),
                             Get(stream, "master_metadata_track_name")),
          msPlayed |-> JsOr(Get(stream, "msPlayed"), Get(stream, "ms_played"))]

\* The callback of standardizedStreams.filter.
validStreamsFilter(stream, tz) ==
    LET streamDate == NewDate(stream.endTime, tz)
    IN /\ GreaterThanZero(stream.msPlayed)
       /\ Truthy(stream.trackName)
       /\ Truthy(stream.artistName)
       /\ Truthy(stream.endTime)
       /\ streamDate.t = "number"

-----------------------------------------------------------------------------
(* Arithmetic and formatting helpers.                                      *)

\* String(x), for the values the aggregations concatenate.
ToStringJs(x) ==
    CASE x.t = "string" -> x.s
      [] x.t = "number" -> ToString(x.n)
      [] x.t = "boolean" -> IF x.b THEN "true" ELSE "false"
      [] x.t = "object" -> "[object Object]"
      [] x.t = "null" -> "null"
      [] x.t = "undefined" -> "undefined"
      [] x.t = "NaN" -> "NaN"

\* a + b: concatenation when an operand is a string or an object, numeric
\* addition otherwise.
JsAdd(a, b) ==
    IF a.t \in {"string", "object"} \/ b.t \in {"string", "object"}
    THEN Str(ToStringJs(a) \o ToStringJs(b))
    ELSE LET x == ToNumber(a)
             y == ToNumber(b)
         IN IF x.t = "number" /\ y.t = "number" THEN Num(x.n + y.n) ELSE NaN

\* parseFloat((x / unit).toFixed(2)), in hundredths; halves round up.
ToFixed2(x, unit) ==
    LET n == ToNumber(x)
    IN IF n.t = "number" THEN Num((200 * n.n + unit) \div (2 * unit)) ELSE NaN

\* Math.round(x / unit)
MathRound(x, unit) ==
    LET n == ToNumber(x)
    IN IF n.t = "number" THEN Num((2 * n.n + unit) \div (2 * unit)) ELSE NaN

\* (x / unit).toFixed(1), in tenths: a string, so toLocaleString leaves it alone.
ToFixed1(x, unit) ==
    IF x.t = "number" THEN Num((20 * x.n + unit) \div (2 * unit)) ELSE NaN

\* n.toLocaleString() for a non-negative integer: its groups of three digits.
RECURSIVE toLocaleString(_)
toLocaleString(n) ==
    IF n < 1000 THEN <<n>> ELSE Append(toLocaleString(n \div 1000), n % 1000)

\* The decimal digits of a non-negative integer, as character codes.
RECURSIVE Digits(_)
Digits(n) ==
    IF n < 10 THEN <<48 + n>> ELSE Append(Digits(n \div 10), 48 + (n % 10))

\* String(n).padStart(2, '0')
padStart2(n) == IF Len(Digits(n)) < 2 THEN <<48>> \o Digits(n) ELSE Digits(n)

\* The number a sequence of digit codes spells.
RECURSIVE DigitsValue(_)
DigitsValue(cs) ==
    IF cs = <<>> THEN 0
    ELSE 10 * DigitsValue(SubSeq(cs, 1, Len(cs) - 1)) + (cs[Len(cs)] - 48)

\* a < b in the code-unit order Array.prototype.sort uses by default.
RECURSIVE LexLess(_, _)
LexLess(a, b) ==
    IF b = <<>> THEN FALSE
    ELSE IF a = <<>> THEN TRUE
    ELSE IF a[1] # b[1] THEN a[1] < b[1]
    ELSE LexLess(Tail(a), Tail(b))

-----------------------------------------------------------------------------
(* Plain objects used as accumulators ({}): a sequence of own properties   *)
(* [key, value] in insertion order.                                        *)

\* Object.prototype, which "__proto__" reads on any plain object.
ObjectPrototype == EmptyObject

\* The array index a property name spells, or -1: such names are enumerated
\* first, in ascending numeric order.
ArrayIndex(k) ==
    CASE k = "311" -> 311
      [] k = "1979" -> 1979
      [] k = "7" -> 7
      [] OTHER -> -1

OwnIndex(acc, k) ==
    IF \E i \in 1..Len(acc) : acc[i].key = k
    THEN CHOOSE i \in 1..Len(acc) : acc[i].key = k
    ELSE 0

\* acc[k]
ObjGet(acc, k) ==
    IF OwnIndex(acc, k) # 0 THEN acc[OwnIndex(acc, k)].value
    ELSE IF k = "__proto__" THEN ObjectPrototype
    ELSE Undefined

\* acc[k] = v: the "__proto__" setter ignores a value that is no object.
ObjSet(acc, k, v) ==
    IF OwnIndex(acc, k) # 0 THEN [acc EXCEPT ![OwnIndex(acc, k)].value = v]
    ELSE IF k = "__proto__" THEN acc
    ELSE Append(acc, [key |-> k, value |-> v])

\* Object.entries(acc) / Object.keys(acc): array-index names ascending, then
\* the other names in insertion order.
ObjectEntries(acc) ==
    LET ints == SelectSeq(acc, LAMBDA e : ArrayIndex(e.key) >= 0)
        rest == SelectSeq(acc, LAMBDA e : ArrayIndex(e.key) < 0)
    IN SortSeq(ints, LAMBDA a, b : ArrayIndex(a.key) < ArrayIndex(b.key)) \o rest

\* s.slice(0, count)
Slice0(s, count) ==
    LET end == IF count < 0 THEN (IF Len(s) + count < 0 THEN 0 ELSE Len(s) + count)
               ELSE (IF count > Len(s) THEN Len(s) ELSE count)
    IN SubSeq(s, 1, end)

\* entries.sort(([, a], [, b]) => b - a): stable, descending by value.
RECURSIVE SortDescending(_)
SortDescending(s) ==
    IF s = <<>> THEN <<>>
    ELSE LET front == SortDescending(SubSeq(s, 1, Len(s) - 1))
             e == s[Len(s)]
             keep == Cardinality({i \in 1..Len(front) : ~(e.value.n > front[i].value.n)})
         IN SubSeq(front, 1, keep) \o <<e>> \o SubSeq(front, keep + 1, Len(front))

-----------------------------------------------------------------------------
(* Aggregation Engine.  A stream is a canonical record whose four fields   *)
(* are JavaScript values.                                                  *)

MonthShort ==
    <<"Jan", "Feb", "Mar", "Apr", "May", "Jun",
      "Jul", "Aug", "Sep", "Oct", "Nov", "Dec">>

\* `${date.getFullYear()}-${String(date.getMonth() + 1).padStart(2, '0')}`,
\* as character codes (45 is '-').
monthYearKey(stream, tz) ==
    LET date == NewDate(stream.endTime, tz)
    IN Digits(getFullYear(date, tz)) \o <<45>> \o padStart2(getMonth(date, tz) + 1)

\* The monthlyHours object after data.forEach; its keys are never array
\* indices nor inherited names.
RECURSIVE monthlyHoursOf(_, _)
monthlyHoursOf(data, tz) ==
    IF data = <<>> THEN <<>>
    ELSE LET acc == monthlyHoursOf(SubSeq(data, 1, Len(data) - 1), tz)
             stream == data[Len(data)]
             k == monthYearKey(stream, tz)
             i == OwnIndex(acc, k)
             old == IF i # 0 THEN acc[i].value ELSE Undefined
             new == JsAdd(JsOr(old, Num(0)), stream.msPlayed)
         IN IF i # 0 THEN [acc EXCEPT ![i].value = new]
            ELSE Append(acc, [key |-> k, value |-> new])

\* new Date(month + '-01').toLocaleString('default', {month: 'short',
\* year: 'numeric'}): the key is read back as UTC midnight of the month's
\* first day and rendered in local time (en-US: "Jan 2023").
monthLabel(month, tz) ==
    LET y == DigitsValue(SubSeq(month, 1, Len(month) - 3))
        m == DigitsValue(SubSeq(month, Len(month) - 1, Len(month)))
        date == Num(DaysFromCivil(y, m, 1) * 24)
    IN MonthShort[getMonth(date, tz) + 1] \o " " \o ToString(getFullYear(date, tz))

getListeningOverTime(data, tz) ==
    LET monthlyHours == monthlyHoursOf(data, tz)
        sortedMonths == SortSeq(monthlyHours, LAMBDA a, b : LexLess(a.key, b.key))
    IN [labels |-> [i \in 1..Len(sortedMonths) |-> monthLabel(sortedMonths[i].key, tz)],
        data |-> [i \in 1..Len(sortedMonths) |->
                     ToFixed2(sortedMonths[i].value, MsPerHour)]]

\* The itemCounts object after data.reduce.
RECURSIVE itemCountsOf(_, _)
itemCountsOf(data, itemKey) ==
    IF data = <<>> THEN <<>>
    ELSE LET acc == itemCountsOf(SubSeq(data, 1, Len(data) - 1), itemKey)
             stream == data[Len(data)]
             item == stream[itemKey]
         IN IF Truthy(item)
            THEN ObjSet(acc, ToStringJs(item),
                        JsAdd(JsOr(ObjGet(acc, ToStringJs(item)), Num(0)),
                              stream.msPlayed))
            ELSE acc

getTopItems(data, itemKey, count) ==
    LET itemCounts == itemCountsOf(data, itemKey)
        sortedItems == Slice0(SortDescending(ObjectEntries(itemCounts)), count)
    IN [labels |-> [i \in 1..Len(sortedItems) |-> sortedItems[i].key],
        data |-> [i \in 1..Len(sortedItems) |->
                     ToFixed2(sortedItems[i].value, MsPerMinute)]]

\* counts[at] = 1 in place of counts[at]++
Increment_Assigns(counts, at) == [counts EXCEPT ![at + 1] = 1]

\* counts[at]++
Increment(counts, at) == [counts EXCEPT ![at + 1] = @ + 1]

\* hourlyCounts after data.forEach, from new Array(24).fill(0).
RECURSIVE hourlyCountsOf(_, _)
hourlyCountsOf(data, tz) ==
    IF data = <<>> THEN [i \in 1..24 |-> 0]
    ELSE Increment(hourlyCountsOf(SubSeq(data, 1, Len(data) - 1), tz),
                   getHours(NewDate(data[Len(data)].endTime, tz), tz))

getHourlyActivity(data, tz) ==
    [labels |-> [i \in 1..24 |-> ToString(i - 1) \o ":00"],
     data |-> hourlyCountsOf(data, tz)]

\* dailyCounts after data.forEach, from new Array(7).fill(0).
RECURSIVE dailyCountsOf(_, _)
dailyCountsOf(data, tz) ==
    IF data = <<>> THEN [i \in 1..7 |-> 0]
    ELSE Increment(dailyCountsOf(SubSeq(data, 1, Len(data) - 1), tz),
                   getDay(NewDate(data[Len(data)].endTime, tz), tz))

getDailyActivity(data, tz) ==
    [labels |-> <<"Sun", "Mon", "Tue", "Wed", "Thu", "Fri", "Sat">>,
     data |-> dailyCountsOf(data, tz)]

-----------------------------------------------------------------------------
(* Summary Calculator.                                                     *)

RECURSIVE totalMsOf(_)
totalMsOf(data) ==
    IF data = <<>> THEN Num(0)
    ELSE JsAdd(totalMsOf(SubSeq(data, 1, Len(data) - 1)), data[Len(data)].msPlayed)

\* new Set(data.map(s => s[field]).filter(Boolean)).size
UniqueCount(data, field) ==
    Cardinality({data[i][field] : i \in {j \in 1..Len(data) : Truthy(data[j][field])}})

\* The stats object displaySummaryStats renders into statsContainer.
summaryStats(data) ==
    LET totalMs == totalMsOf(data)
        totalMinutes == MathRound(totalMs, MsPerMinute)
        totalHours == ToFixed1(totalMinutes, 60)
    IN [plays |-> toLocaleString(Len(data)),
        minutes |-> IF totalMinutes.t = "number"
                    THEN toLocaleString(totalMinutes.n) ELSE <<>>,
        hours |-> totalHours,
        artists |-> toLocaleString(UniqueCount(data, "artistName")),
        songs |-> toLocaleString(UniqueCount(data, "trackName"))]

-----------------------------------------------------------------------------
(* Presentation state.                                                     *)

MsgSelectFiles == "Please select your Spotify JSON files first."
MsgNoStreamingData == "No streaming data found in the selected files."
MsgNoValidHistory ==
    "No valid streaming history could be found in your files. Please ensure the files are correct and contain playable tracks."
MsgParseError ==
    "Error reading or parsing files. Please make sure they are valid JSON files."

CanvasIds ==
    {"listening-over-time-chart", "top-artists-chart", "top-tracks-chart",
     "hourly-activity-chart", "daily-activity-chart"}

NoChart == [type |-> "none"]
NoStats == [plays |-> <<>>]

showError(message) ==
    /\ errorText' = message
    /\ errorHidden' = FALSE

resetUI ==
    /\ summaryHidden' = TRUE
    /\ chartsHidden' = TRUE
    /\ errorHidden' = TRUE

\* new Chart(...), which takes the place of the canvas's previous instance
\* in the registry.
createChart(type, title, view, label) ==
    [type |-> type, title |-> title, labels |-> view.labels,
     data |-> view.data, label |-> label]

createBarChart(title, view, label) == createChart("bar", title, view, label)

createLineChart(title, view, label) == createChart("line", title, view, label)

\* if (view.labels.length > 0) createBarChart(...)
createBarChartIfAny(old, title, view, label) ==
    IF Len(view.labels) > 0 THEN createBarChart(title, view, label) ELSE old

\* The registry after displayDashboard's five chart creations; a top-items
\* chart is created only when it has a label.
dashboardChart(old, canvasId, data, tz) ==
    CASE canvasId = "listening-over-time-chart" ->
            createLineChart("Listening Over Time (Hours per Month)",
                            getListeningOverTime(data, tz), "Hours Played")
      [] canvasId = "top-artists-chart" ->
            createBarChartIfAny(old, "Top 10 Artists",
                                getTopItems(data, "artistName", 10), "Minutes Played")
      [] canvasId = "top-tracks-chart" ->
            createBarChartIfAny(old, "Top 10 Tracks",
                                getTopItems(data, "trackName", 10), "Minutes Played")
      [] canvasId = "hourly-activity-chart" ->
            createBarChart("Listening Activity by Hour",
                           getHourlyActivity(data, tz), "Plays")
      [] canvasId = "daily-activity-chart" ->
            createBarChart("Listening Activity by Day of Week",
                           getDailyActivity(data, tz), "Plays")

dashboardCharts(registry, data, tz) ==
    [canvasId \in CanvasIds |-> dashboardChart(registry[canvasId], canvasId, data, tz)]

displayDashboard(data) ==
    IF Len(data) = 0
    THEN /\ showError(MsgNoValidHistory)
         /\ outcome' = "NoValidRecords"
         /\ rendered' = <<>>
         /\ UNCHANGED <<summaryHidden, chartsHidden, statsContainer, charts>>
    ELSE /\ summaryHidden' = FALSE
         /\ chartsHidden' = FALSE
         /\ statsContainer' = summaryStats(data)
         /\ charts' = dashboardCharts(charts, data, tzOffset)
         /\ outcome' = "Success"
         /\ rendered' = data
         /\ UNCHANGED <<errorHidden, errorText>>

-----------------------------------------------------------------------------
(* File texts.  A text is either not JSON or spells one JSON value.        *)

InvalidText == [valid |-> FALSE, value |-> Undefined]
JsonText(value) == [valid |-> TRUE, value |-> value]

\* A parser that reads malformed text as a value that is no array, so that
\* the loop skips the file.
JSONparse_SkipsMalformed(text) == IF text.valid THEN text.value ELSE Null

JSONparse(text) == IF text.valid THEN text.value ELSE Throw

\* The array elements the pipeline is run on: a playable record in the
\* legacy format, a record in the current format with zero play time, and
\* null.
LegacyRecord ==
    RawRecord(Absent, Str("2023-01-15T10:00:00Z"), Absent, Str("A"),
              Absent, Str("T1"), Absent, Num(200000))
ZeroRecord ==
    RawRecord(Str("2023-02-01 09:00"), Absent, Str("B"), Absent,
              Str("T2"), Absent, Num(0), Absent)

RawElements == {LegacyRecord, ZeroRecord, Null}

SeqsUpTo(S, n) == UNION {[1..k -> S] : k \in 0..n}

\* The texts a file may hold when at most `room` more records fit the bound.
FileTexts(room) ==
    {InvalidText, JsonText(EmptyObject)}
        \cup {JsonText(Arr(s)) : s \in SeqsUpTo(RawElements, room)}

TextKind(text) ==
    IF ~text.valid THEN "invalid"
    ELSE IF text.value.t # "array" THEN "notarray"
    ELSE IF text.value.a = <<>> THEN "empty"
    ELSE "records"

TimeZones == {-8, 0, 9}

-----------------------------------------------------------------------------
(* The pipeline: handleFileProcessing and the events around it.            *)

NoCall == [fn |-> "none"]
Pending == [t |-> "pending"]

\* No older invocation is suspended.
NoPrior == [pc |-> "none", files |-> 0, idx |-> 0, allStreams |-> <<>>]

Init ==
    /\ tzOffset \in TimeZones
    /\ fileInputFiles = 0
    /\ fileCount = 0
    /\ pc = "idle"
    /\ files = 0
    /\ idx = 0
    /\ allStreams = <<>>
    /\ loaderHidden = TRUE
    /\ errorHidden = TRUE
    /\ errorText = ""
    /\ summaryHidden = TRUE
    /\ chartsHidden = TRUE
    /\ statsContainer = NoStats
    /\ charts = [c \in CanvasIds |-> NoChart]
    /\ outcome = "none"
    /\ loaderShows = 0
    /\ readLog = <<>>
    /\ rendered = <<>>
    /\ call = NoCall
    /\ ret = Pending
    /\ prior = NoPrior

updateFileCount(n) == fileCount' = n

\* The 'change' and 'drop' listeners: the user selects n files.
SelectFiles(n) ==
    /\ fileInputFiles' = n
    /\ updateFileCount(n)
    /\ UNCHANGED <<tzOffset, invVars, uiVars, pureVars, prior>>

\* The catch block without the finally block: the loader stays shown.
CatchError_NoFinally ==
    /\ showError(MsgParseError)
    /\ outcome' = "ParseError"
    /\ rendered' = <<>>
    /\ pc' = "terminated"
    /\ UNCHANGED <<loaderHidden, summaryHidden, chartsHidden, statsContainer, charts>>

\* The catch and finally blocks.
CatchError ==
    /\ showError(MsgParseError)
    /\ loaderHidden' = TRUE
    /\ outcome' = "ParseError"
    /\ rendered' = <<>>
    /\ pc' = "terminated"
    /\ UNCHANGED <<summaryHidden, chartsHidden, statsContainer, charts>>

\* After the loop: standardize, filter, display; then the finally block.
ProcessStreams(streams) ==
    LET standardizedStreams == [i \in 1..Len(streams) |-> standardizeStreamData(streams[i])]
        validStreams == SelectSeq(standardizedStreams,
                                  LAMBDA stream : validStreamsFilter(stream, tzOffset))
    IN IF \E i \in 1..Len(streams) : standardizedStreams[i] = Throw
       THEN CatchError
       ELSE /\ IF Len(standardizedStreams) > 0
               THEN displayDashboard(validStreams)
               ELSE /\ showError(MsgNoStreamingData)
                    /\ outcome' = "EmptyInput"
                    /\ rendered' = <<>>
                    /\ UNCHANGED <<summaryHidden, chartsHidden, statsContainer, charts>>
            /\ loaderHidden' = TRUE
            /\ pc' = "terminated"

\* The handler without its early return: an empty file list runs through the
\* pipeline, whose loop has nothing to await.
HandleFileProcessing_NoEarlyReturn ==
    /\ pc # "awaitRead"
    /\ files' = fileInputFiles
    /\ readLog' = <<>>
    /\ rendered' = <<>>
    /\ allStreams' = <<>>
    /\ loaderShows' = 1
    /\ IF fileInputFiles = 0
       THEN /\ summaryHidden' = TRUE
            /\ chartsHidden' = TRUE
            /\ showError(MsgNoStreamingData)
            /\ loaderHidden' = TRUE
            /\ outcome' = "EmptyInput"
            /\ idx' = 0
            /\ pc' = "terminated"
       ELSE /\ resetUI
            /\ loaderHidden' = FALSE
            /\ outcome' = "none"
            /\ idx' = 1
            /\ pc' = "awaitRead"
            /\ UNCHANGED errorText
    /\ UNCHANGED <<envVars, statsContainer, charts, pureVars, prior>>

\* The click on "Process Files", up to the first await (or the early return).
\* No invocation is in flight: clicks do not overlap.
HandleFileProcessing ==
    /\ pc # "awaitRead"
    /\ files' = fileInputFiles
    /\ readLog' = <<>>
    /\ rendered' = <<>>
    /\ allStreams' = <<>>
    /\ IF fileInputFiles = 0
       THEN /\ showError(MsgSelectFiles)
            /\ outcome' = "NoFilesSelected"
            /\ loaderShows' = 0
            /\ idx' = 0
            /\ pc' = "terminated"
            /\ UNCHANGED <<loaderHidden, summaryHidden, chartsHidden>>
       ELSE /\ resetUI
            /\ loaderHidden' = FALSE
            /\ loaderShows' = 1
            /\ outcome' = "none"
            /\ idx' = 1
            /\ pc' = "awaitRead"
            /\ UNCHANGED errorText
    /\ UNCHANGED <<envVars, statsContainer, charts, pureVars, prior>>

\* The awaited readFileAsText resolves with the file's text: parse it,
\* accumulate, and either await the next file or finish.
ReadResolved(text) ==
    /\ pc = "awaitRead"
    /\ readLog' = Append(readLog, [file |-> idx, kind |-> TextKind(text)])
    /\ LET jsonData == JSONparse(text)
           streams == IF jsonData.t = "array" THEN allStreams \o jsonData.a
                      ELSE allStreams
       IN IF jsonData = Throw
          THEN CatchError /\ UNCHANGED <<idx, allStreams>>
          ELSE /\ allStreams' = streams
               /\ IF idx < files
                  THEN /\ idx' = idx + 1
                       /\ UNCHANGED <<pc, outcome, rendered, uiVars>>
                  ELSE /\ ProcessStreams(streams)
                       /\ UNCHANGED idx
    /\ UNCHANGED <<envVars, files, loaderShows, pureVars, prior>>

\* The awaited readFileAsText rejects (reader.onerror).
ReadRejected ==
    /\ pc = "awaitRead"
    /\ readLog' = Append(readLog, [file |-> idx, kind |-> "unreadable"])
    /\ CatchError
    /\ UNCHANGED <<envVars, files, idx, allStreams, loaderShows, pureVars, prior>>

Next ==
    \/ \E n \in 0..MaxFiles : SelectFiles(n)
    \/ HandleFileProcessing
    \/ \E text \in FileTexts(MaxStreams - Len(allStreams)) : ReadResolved(text)
    \/ ReadRejected

Spec == Init /\ [][Next]_vars

\* Every file decode completes or fails: an awaited read is settled.
ReadSettles ==
    \/ \E text \in FileTexts(MaxStreams - Len(allStreams)) : ReadResolved(text)
    \/ ReadRejected

FairSpec == Spec /\ WF_vars(ReadSettles)

-----------------------------------------------------------------------------
(* Overlapping invocations.  The button stays enabled while an invocation  *)
(* awaits a read, so a click then starts a second invocation; the first    *)
(* keeps its own files, index and allStreams (`prior`) and resumes when    *)
(* its read settles.  pc, files, idx, allStreams and the history variables *)
(* are those of the most recently started invocation.  At most two         *)
(* invocations are suspended at a time.                                    *)

\* A click on "Process Files" while the invocation started before it awaits
\* a read.
HandleFileProcessingOverlapping ==
    /\ pc = "awaitRead"
    /\ prior.pc # "awaitRead"
    /\ prior' = [pc |-> pc, files |-> files, idx |-> idx, allStreams |-> allStreams]
    /\ files' = fileInputFiles
    /\ readLog' = <<>>
    /\ rendered' = <<>>
    /\ allStreams' = <<>>
    /\ IF fileInputFiles = 0
       THEN /\ showError(MsgSelectFiles)
            /\ outcome' = "NoFilesSelected"
            /\ loaderShows' = 0
            /\ idx' = 0
            /\ pc' = "terminated"
            /\ UNCHANGED <<loaderHidden, summaryHidden, chartsHidden>>
       ELSE /\ resetUI
            /\ loaderHidden' = FALSE
            /\ loaderShows' = 1
            /\ outcome' = "none"
            /\ idx' = 1
            /\ pc' = "awaitRead"
            /\ UNCHANGED errorText
    /\ UNCHANGED <<envVars, statsContainer, charts, pureVars>>

\* The older invocation's catch and finally blocks.
PriorCatchError ==
    /\ showError(MsgParseError)
    /\ loaderHidden' = TRUE
    /\ UNCHANGED <<summaryHidden, chartsHidden, statsContainer, charts>>

\* displayDashboard, called by the older invocation.
PriorDisplayDashboard(data) ==
    IF Len(data) = 0
    THEN /\ showError(MsgNoValidHistory)
         /\ UNCHANGED <<summaryHidden, chartsHidden, statsContainer, charts>>
    ELSE /\ summaryHidden' = FALSE
         /\ chartsHidden' = FALSE
         /\ statsContainer' = summaryStats(data)
         /\ charts' = dashboardCharts(charts, data, tzOffset)
         /\ UNCHANGED <<errorHidden, errorText>>

\* The older invocation after its loop: standardize, filter, display; then
\* its finally block.
PriorProcessStreams(streams) ==
    LET standardizedStreams == [i \in 1..Len(streams) |-> standardizeStreamData(streams[i])]
        validStreams == SelectSeq(standardizedStreams,
                                  LAMBDA stream : validStreamsFilter(stream, tzOffset))
    IN IF \E i \in 1..Len(streams) : standardizedStreams[i] = Throw
       THEN PriorCatchError
       ELSE /\ IF Len(standardizedStreams) > 0
               THEN PriorDisplayDashboard(validStreams)
               ELSE /\ showError(MsgNoStreamingData)
                    /\ UNCHANGED <<summaryHidden, chartsHidden, statsContainer, charts>>
            /\ loaderHidden' = TRUE

\* The older invocation's awaited read resolves.
PriorReadResolved(text) ==
    /\ prior.pc = "awaitRead"
    /\ LET jsonData == JSONparse(text)
           streams == IF jsonData.t = "array" THEN prior.allStreams \o jsonData.a
                      ELSE prior.allStreams
       IN IF jsonData = Throw
          THEN /\ PriorCatchError
               /\ prior' = [prior EXCEPT !.pc = "terminated"]
          ELSE IF prior.idx < prior.files
          THEN /\ prior' = [prior EXCEPT !.idx = @ + 1, !.allStreams = streams]
               /\ UNCHANGED uiVars
          ELSE /\ PriorProcessStreams(streams)
               /\ prior' = [prior EXCEPT !.pc = "terminated", !.allStreams = streams]
    /\ UNCHANGED <<envVars, invVars, pureVars>>

\* The older invocation's awaited read rejects.
PriorReadRejected ==
    /\ prior.pc = "awaitRead"
    /\ PriorCatchError
    /\ prior' = [prior EXCEPT !.pc = "terminated"]
    /\ UNCHANGED <<envVars, invVars, pureVars>>

OverlapNext ==
    \/ \E n \in 0..MaxFiles : SelectFiles(n)
    \/ HandleFileProcessing
    \/ HandleFileProcessingOverlapping
    \/ \E text \in FileTexts(MaxStreams - Len(allStreams)) : ReadResolved(text)
    \/ ReadRejected
    \/ \E text \in FileTexts(MaxStreams - Len(prior.allStreams)) : PriorReadResolved(text)
    \/ PriorReadRejected

OverlapSpec == Init /\ [][OverlapNext]_vars

-----------------------------------------------------------------------------
(* The pure functions, each applied once to arguments drawn from bounded   *)
(* sets.                                                                   *)

\* Raw array elements: every combination of present, falsy and absent values
\* under the current and the legacy keys, and values that are no objects.
RawStreams ==
    {RawRecord(e, ts, a, la, t, lt, ms, lms) :
        e \in {Absent, Str(""), Str("2023-02-01 09:00")},
        ts \in {Absent, Str("2023-01-15T10:00:00Z")},
        a \in {Absent, Str(""), Str("B")},
        la \in {Absent, Str("A")},
        t \in {Absent, Str("T2")},
        lt \in {Absent, Str("T1")},
        ms \in {Absent, Num(0), Num(60000)},
        lms \in {Absent, Num(200000)}}
        \cup {Null, Num(7), Str("text"), Bool(TRUE), Arr(<<>>)}

\* Canonical records of every shape the Normalizer can hand to the filter.
CanonicalRecords ==
    [endTime : {Undefined, Null, Str(""), Str("not a date"), Num(86400000),
                Str("2023-01-15T10:00:00Z"), Str("2023-02-01 09:00")},
     artistName : {Undefined, Str(""), Str("A"), Bool(TRUE)},
     trackName : {Undefined, Str(""), Str("T1"), Num(7), EmptyObject},
     msPlayed : {Undefined, Null, Num(0), Num(-5), Num(60000), Str("5000"),
                 Str("abc"), Bool(TRUE), EmptyObject}]

\* A validated record.
Stream(endTime, artistName, trackName, msPlayed) ==
    [endTime |-> Str(endTime), artistName |-> Str(artistName),
     trackName |-> Str(trackName), msPlayed |-> Num(msPlayed)]

\* Validated records for the ranking: names that are array indices, a name
\* Object.prototype defines, and two artists sharing a track name.
TopTrackOf ==
    [a \in {"Abba", "311", "1979", "__proto__"} |->
        CASE a = "Abba" -> "T1"
          [] a = "311" -> "7"
          [] a = "1979" -> "T1"
          [] a = "__proto__" -> "T2"]

TopStreams ==
    {Stream("2023-01-15T10:00:00Z", a, TopTrackOf[a], ms) :
        a \in DOMAIN TopTrackOf, ms \in {60000, 120000}}

\* Validated records for the monthly view and the histograms.
HistogramStreams ==
    {Stream(e, "A", "T1", 60000) : e \in DOMAIN TimeStrings}

Calls ==
    {[fn |-> "standardizeStreamData", stream |-> s] : s \in RawStreams}
    \cup {[fn |-> "validStreamsFilter", stream |-> c, tz |-> 0] : c \in CanonicalRecords}
    \cup {[fn |-> "getTopItems", data |-> d, itemKey |-> k, count |-> n] :
            d \in SeqsUpTo(TopStreams, MaxData),
            k \in {"artistName", "trackName"},
            n \in (-2)..MaxCount}
    \cup {[fn |-> f, data |-> d, tz |-> tz] :
            f \in {"getListeningOverTime", "getHourlyActivity", "getDailyActivity"},
            d \in SeqsUpTo(HistogramStreams, MaxData),
            tz \in TimeZones}

PureInit ==
    /\ tzOffset = 0
    /\ fileInputFiles = 0
    /\ fileCount = 0
    /\ pc = "idle"
    /\ files = 0
    /\ idx = 0
    /\ allStreams = <<>>
    /\ loaderHidden = TRUE
    /\ errorHidden = TRUE
    /\ errorText = ""
    /\ summaryHidden = TRUE
    /\ chartsHidden = TRUE
    /\ statsContainer = NoStats
    /\ charts = [c \in CanvasIds |-> NoChart]
    /\ outcome = "none"
    /\ loaderShows = 0
    /\ readLog = <<>>
    /\ rendered = <<>>
    /\ call \in Calls
    /\ ret = Pending
    /\ prior = NoPrior

Returns(fn, value) ==
    /\ call.fn = fn
    /\ ret = Pending
    /\ ret' = value
    /\ UNCHANGED <<envVars, invVars, uiVars, call, prior>>

CallStandardizeStreamData ==
    Returns("standardizeStreamData", standardizeStreamData(call.stream))

CallValidStreamsFilter ==
    Returns("validStreamsFilter", Bool(validStreamsFilter(call.stream, call.tz)))

CallGetListeningOverTime ==
    Returns("getListeningOverTime", getListeningOverTime(call.data, call.tz))

CallGetTopItems ==
    Returns("getTopItems", getTopItems(call.data, call.itemKey, call.count))

CallGetHourlyActivity ==
    Returns("getHourlyActivity", getHourlyActivity(call.data, call.tz))

CallGetDailyActivity ==
    Returns("getDailyActivity", getDailyActivity(call.data, call.tz))

PureNext ==
    \/ CallStandardizeStreamData
    \/ CallValidStreamsFilter
    \/ CallGetListeningOverTime
    \/ CallGetTopItems
    \/ CallGetHourlyActivity
    \/ CallGetDailyActivity

PureSpec == PureInit /\ [][PureNext]_vars

-----------------------------------------------------------------------------
(* Properties of the pipeline (checked under Spec or FairSpec).            *)

Terminated == pc = "terminated"

ReadKinds == {readLog[i].kind : i \in 1..Len(readLog)}

\* The canonical record of a raw element passes the validity predicate.
Passes(raw) ==
    /\ standardizeStreamData(raw) # Throw
    /\ validStreamsFilter(standardizeStreamData(raw), tzOffset)

ValidCount == Cardinality({i \in 1..Len(allStreams) : Passes(allStreams[i])})

\* The terminal state shows exactly this error and no dashboard.
ShowsOnlyError(message) ==
    /\ errorText = message
    /\ ~errorHidden
    /\ summaryHidden
    /\ chartsHidden
    /\ rendered = <<>>

\* C1: once a file read of an invocation has given text that is not JSON,
\* the invocation has ended in ParseError: the malformed file is the last
\* one read (no later file is read), nothing was rendered from the records
\* of the files read before it, and only the parse error is on display.
C1_MalformedFileAbortsBatch ==
    "invalid" \in ReadKinds =>
        /\ Terminated
        /\ outcome = "ParseError"
        /\ readLog[Len(readLog)].kind = "invalid"
        /\ \A i \in 1..(Len(readLog) - 1) : readLog[i].kind # "invalid"
        /\ ShowsOnlyError(MsgParseError)
        /\ loaderHidden

\* A batch of two files: the first gave records, the second is malformed.
C1_Witness ==
    /\ Terminated
    /\ files = 2
    /\ Len(readLog) = 2
    /\ readLog[1].kind = "records"
    /\ readLog[2].kind = "invalid"
    /\ \E i \in 1..Len(allStreams) : Passes(allStreams[i])

\* C2 (as claimed): an invocation on one or more files that all parse as
\* JSON ends in EmptyInput exactly when no raw record was accumulated, in
\* NoValidRecords exactly when some were and none passes the validity
\* predicate, and in Success exactly when one passes; each outcome has its
\* own message.
C2_OutcomeDecidedByCounts ==
    (Terminated /\ files > 0 /\ ReadKinds \subseteq {"notarray", "empty", "records"}) =>
        /\ outcome \in {"Success", "EmptyInput", "NoValidRecords"}
        /\ outcome = "EmptyInput" <=> Len(allStreams) = 0
        /\ outcome = "NoValidRecords" <=> (Len(allStreams) > 0 /\ ValidCount = 0)
        /\ outcome = "Success" <=> ValidCount > 0
        /\ outcome = "EmptyInput" => ShowsOnlyError(MsgNoStreamingData)
        /\ outcome = "NoValidRecords" => ShowsOnlyError(MsgNoValidHistory)
        /\ outcome = "Success" => (errorHidden /\ rendered # <<>>)
        /\ Cardinality({MsgNoStreamingData, MsgNoValidHistory, MsgParseError}) = 3

\* C3 (as claimed): an invocation with an empty file list ends with the
\* outcome and the message of an invocation whose files all hold [], and
\* neither renders anything.
C3_EmptyListSameAsEmptyFiles ==
    (Terminated /\ (files = 0 \/ ReadKinds = {"empty"})) =>
        /\ outcome = "EmptyInput"
        /\ errorText = MsgNoStreamingData
        /\ ~errorHidden
        /\ rendered = <<>>

\* C3 (amended): an invocation with an empty file list ends by showing
\* "Please select your Spotify JSON files first." without entering the
\* pipeline; one whose files all hold [] ends in EmptyInput showing "No
\* streaming data found in the selected files."; the two messages differ and
\* neither invocation renders a summary or a chart.
C3_EmptyListHasOwnMessage ==
    /\ (Terminated /\ files = 0) =>
          /\ outcome = "NoFilesSelected"
          /\ errorText = MsgSelectFiles
          /\ ~errorHidden
          /\ rendered = <<>>
    /\ (Terminated /\ files > 0 /\ ReadKinds = {"empty"}) =>
          /\ outcome = "EmptyInput"
          /\ ShowsOnlyError(MsgNoStreamingData)
    /\ MsgSelectFiles # MsgNoStreamingData

\* An empty file list processed after a successful batch: the invocation
\* rendered nothing although the earlier dashboard is still on display.
C3_Witness ==
    /\ Terminated
    /\ files = 0
    /\ outcome = "NoFilesSelected"
    /\ ~summaryHidden
    /\ rendered = <<>>

\* The statement C4 makes of every invocation, the empty file list included:
\* it has shown the loader exactly once and ended in one of the four outcomes.
C4_ProcessingEnteredOnce ==
    Terminated =>
        /\ loaderShows = 1
        /\ loaderHidden
        /\ outcome \in {"Success", "EmptyInput", "NoValidRecords", "ParseError"}

C4_Safety ==
    /\ (Terminated /\ files > 0) =>
          /\ loaderShows = 1
          /\ loaderHidden
          /\ outcome \in {"Success", "EmptyInput", "NoValidRecords", "ParseError"}
    /\ (Terminated /\ files = 0) =>
          /\ loaderShows = 0
          /\ outcome = "NoFilesSelected"
          /\ readLog = <<>>
    /\ pc = "awaitRead" =>
          /\ loaderShows = 1
          /\ ~loaderHidden
          /\ outcome = "none"
          /\ idx \in 1..files
    /\ Len(readLog) <= files
    /\ \A i \in 1..Len(readLog) : readLog[i].file = i

\* C4 (amended): an invocation with a non-empty file list shows the loader
\* exactly once, keeps it shown while a read is awaited, reads the files in
\* order and none twice, and, every awaited read being settled, reaches
\* exactly one of Success, EmptyInput, NoValidRecords and ParseError with the
\* loader hidden; an invocation with an empty file list never shows the
\* loader and ends at once in the no-files-selected state.
C4_ProcessingThenOneTerminal ==
    /\ []C4_Safety
    /\ (pc = "awaitRead") ~> Terminated

\* A batch of MaxFiles files read to the end and displayed.
C4_Witness ==
    /\ Terminated
    /\ files = MaxFiles
    /\ Len(readLog) = MaxFiles
    /\ loaderShows = 1
    /\ outcome = "Success"

\* C5 (as claimed): when every file of a batch parses as a JSON array, every
\* element is given a canonical record and the outcome is never ParseError,
\* whatever the elements are.
C5_RecordDefectsNeverRaise ==
    (Terminated /\ files > 0 /\ ReadKinds \subseteq {"empty", "records"}) =>
        /\ \A i \in 1..Len(allStreams) : standardizeStreamData(allStreams[i]) # Throw
        /\ outcome # "ParseError"

-----------------------------------------------------------------------------
(* Properties of the pure functions (checked under PureSpec).              *)

Returned(fn) == call.fn = fn /\ ret # Pending

\* The first present value in the resolution order: the current key's value
\* when the raw record has that key, else the legacy key's, else undefined.
FirstPresent(stream, current, legacy) ==
    IF stream.o[current] # Absent THEN stream.o[current]
    ELSE IF stream.o[legacy] # Absent THEN stream.o[legacy]
    ELSE Undefined

\* C6 (as claimed): each canonical field is the value under the current key
\* whenever the raw record has that key (0 and "" included), and the value
\* under the legacy key only when the current key is absent.
C6_FirstPresentValueWins ==
    (Returned("standardizeStreamData") /\ call.stream.t = "object") =>
        /\ ret.endTime = FirstPresent(call.stream, "endTime", "ts")
        /\ ret.artistName = FirstPresent(call.stream, "artistName",
                                         "master_metadata_album_artist_name")
        /\ ret.trackName = FirstPresent(call.stream, "trackName",
                                        "master_metadata_track_name")
        /\ ret.msPlayed = FirstPresent(call.stream, "msPlayed", "ms_played")

NonEmptyString(x) == x.t = "string" /\ x.s # ""

\* C7 (as claimed): the validity predicate accepts a canonical record if and
\* only if msPlayed is a number greater than zero, trackName and artistName
\* are non-empty strings, and endTime is non-empty and parses to a valid point
\* in time.
C7_AcceptsIffAllFourHold ==
    Returned("validStreamsFilter") =>
        ret = Bool(/\ call.stream.msPlayed.t = "number"
                   /\ call.stream.msPlayed.n > 0
                   /\ NonEmptyString(call.stream.trackName)
                   /\ NonEmptyString(call.stream.artistName)
                   /\ Truthy(call.stream.endTime)
                   /\ NewDate(call.stream.endTime, call.tz).t = "number")

\* The records of a collection that carry a label under a key.
Carrying(data, key, label) == {i \in 1..Len(data) : data[i][key] = Str(label)}

DistinctKeys(data, key) ==
    {data[i][key].s : i \in {j \in 1..Len(data) : Truthy(data[j][key])}}

RECURSIVE SumOver(_, _)
SumOver(data, I) ==
    IF I = {} THEN 0
    ELSE LET i == CHOOSE j \in I : TRUE
         IN data[i].msPlayed.n + SumOver(data, I \ {i})

TrueTotal(data, key, label) == SumOver(data, Carrying(data, key, label))

Min(a, b) == IF a < b THEN a ELSE b

\* C8 (as claimed, for the counts N >= 0): getTopItems returns labels and
\* data of equal length min(N, number of distinct non-empty key values), the
\* data is non-increasing, and each entry's value is the sum of msPlayed over
\* exactly the records carrying its label, in minutes.
C8_TopItemsLengthOrderAndSums ==
    (Returned("getTopItems") /\ call.count >= 0) =>
        /\ Len(ret.labels) = Len(ret.data)
        /\ Len(ret.labels) = Min(call.count, Cardinality(DistinctKeys(call.data, call.itemKey)))
        /\ \A i, j \in 1..Len(ret.data) : i < j => ret.data[i].n >= ret.data[j].n
        /\ \A i \in 1..Len(ret.labels) :
              ret.data[i] = ToFixed2(Num(TrueTotal(call.data, call.itemKey, ret.labels[i])),
                                     MsPerMinute)

RECURSIVE SumSeq(_)
SumSeq(s) == IF s = <<>> THEN 0 ELSE s[1] + SumSeq(Tail(s))

\* C9: getHourlyActivity returns exactly 24 buckets labelled "0:00" to
\* "23:00" and getDailyActivity exactly 7 labelled Sun to Sat, for every
\* collection of validated records, the empty one included, and in each the
\* bucket counts add up to the number of records.
C9_HistogramsTotalAndConserving ==
    /\ Returned("getHourlyActivity") =>
          /\ ret.labels = <<"0:00", "1:00", "2:00", "3:00", "4:00", "5:00", "6:00",
                            "7:00", "8:00", "9:00", "10:00", "11:00", "12:00",
                            "13:00", "14:00", "15:00", "16:00", "17:00", "18:00",
                            "19:00", "20:00", "21:00", "22:00", "23:00">>
          /\ Len(ret.data) = 24
          /\ \A i \in 1..24 : ret.data[i] >= 0
          /\ SumSeq(ret.data) = Len(call.data)
    /\ Returned("getDailyActivity") =>
          /\ ret.labels = <<"Sun", "Mon", "Tue", "Wed", "Thu", "Fri", "Sat">>
          /\ Len(ret.data) = 7
          /\ \A i \in 1..7 : ret.data[i] >= 0
          /\ SumSeq(ret.data) = Len(call.data)

\* West of UTC, MaxData records of which two fall in the same hour bucket.
C9_Witness ==
    /\ Returned("getHourlyActivity")
    /\ call.tz < 0
    /\ Len(call.data) = MaxData
    /\ \E i \in 1..24 : ret.data[i] >= 2
    /\ \E i, j \in 1..24 : i # j /\ ret.data[i] > 0 /\ ret.data[j] > 0

FirstAt(data, key, label) ==
    CHOOSE i \in Carrying(data, key, label) : \A j \in Carrying(data, key, label) : i <= j

PositionOf(labels, label) == CHOOSE i \in 1..Len(labels) : labels[i] = label

InLabels(labels, label) == \E i \in 1..Len(labels) : labels[i] = label

\* C10 (as claimed, on names other than "__proto__" and counts N >= 0): of
\* two key values with equal summed msPlayed, the one whose first record comes
\* earlier in the collection is ranked first, so that the other survives the
\* truncation to N only behind it.
C10_TiesRankedByEncounterOrder ==
    (Returned("getTopItems") /\ call.count >= 0) =>
        \A a, b \in DistinctKeys(call.data, call.itemKey) \ {"__proto__"} :
            (/\ TrueTotal(call.data, call.itemKey, a) = TrueTotal(call.data, call.itemKey, b)
             /\ FirstAt(call.data, call.itemKey, a) < FirstAt(call.data, call.itemKey, b)
             /\ InLabels(ret.labels, b))
            => /\ InLabels(ret.labels, a)
               /\ PositionOf(ret.labels, a) < PositionOf(ret.labels, b)

\* The local calendar month of a record, counted in months from year 0.
LocalMonth(stream, tz) ==
    getFullYear(NewDate(stream.endTime, tz), tz) * 12
        + getMonth(NewDate(stream.endTime, tz), tz)

LocalMonths(data, tz) == {LocalMonth(data[i], tz) : i \in 1..Len(data)}

\* The i-th month of a set, in chronological order.
NthMonth(months, i) ==
    CHOOSE m \in months : Cardinality({n \in months : n < m}) = i - 1

MonthName(m) == MonthShort[(m % 12) + 1] \o " " \o ToString(m \div 12)

InMonth(data, tz, m) == {i \in 1..Len(data) : LocalMonth(data[i], tz) = m}

\* C11 (as claimed): getListeningOverTime emits one bucket per local calendar
\* month that holds a record and no other, in chronological order; bucket i's
\* value is the month's summed msPlayed in hours and its label names that
\* same month and year, in every time zone.
C11_OneBucketPerLocalMonth ==
    Returned("getListeningOverTime") =>
        /\ Len(ret.labels) = Cardinality(LocalMonths(call.data, call.tz))
        /\ Len(ret.data) = Len(ret.labels)
        /\ \A i \in 1..Len(ret.labels) :
              /\ ret.labels[i] = MonthName(NthMonth(LocalMonths(call.data, call.tz), i))
              /\ ret.data[i] =
                    ToFixed2(Num(SumOver(call.data,
                                InMonth(call.data, call.tz,
                                        NthMonth(LocalMonths(call.data, call.tz), i)))),
                             MsPerHour)

\* The message of an outcome that shows an error.
OutcomeMessage(o) ==
    CASE o = "EmptyInput" -> MsgNoStreamingData
      [] o = "NoValidRecords" -> MsgNoValidHistory
      [] o = "ParseError" -> MsgParseError
      [] o = "NoFilesSelected" -> MsgSelectFiles

\* What an invocation that went through the pipeline leaves displayed when
\* nothing else touches the page: after a Success the dashboard of the
\* records it rendered and no error, otherwise its error message and no
\* dashboard; the loader hidden.
DisplaysOwnResult ==
    /\ loaderHidden
    /\ IF outcome = "Success"
       THEN /\ errorHidden
            /\ ~summaryHidden
            /\ ~chartsHidden
            /\ statsContainer = summaryStats(rendered)
            /\ charts = dashboardCharts(charts, rendered, tzOffset)
       ELSE /\ ~errorHidden
            /\ errorText = OutcomeMessage(outcome)
            /\ summaryHidden
            /\ chartsHidden

\* C12 (as claimed): once an older invocation that was still suspended when
\* the most recent invocation started has completed, and the most recent one
\* has completed too, the page shows the most recent invocation's result;
\* and the loader is shown for as long as the most recent invocation is
\* processing.
C12_NewestInvocationDisplayed ==
    /\ pc = "awaitRead" => ~loaderHidden
    /\ (/\ prior.pc = "terminated"
        /\ pc = "terminated"
        /\ outcome # "NoFilesSelected") => DisplaysOwnResult

DashboardVisible == ~summaryHidden \/ ~chartsHidden

\* C13 (as claimed): over invocations that do not overlap, whenever the most
\* recent invocation has terminated the error message and the dashboard are
\* not both visible, the dashboard is visible only if that invocation ended
\* in Success, and the error message only if it did not.
C13_ErrorAndDashboardExclusive ==
    Terminated =>
        /\ ~(~errorHidden /\ DashboardVisible)
        /\ DashboardVisible => outcome = "Success"
        /\ ~errorHidden => outcome # "Success"

====
